---- MODULE Spec2Model ----
(***************************************************************************)
(* Resonance enumeration of automol/graph/base/_res.py:                    *)
(*   pi_system_atom_keys              (the pi-system partitioner)          *)
(*   pi_system_resonance_bond_orders  (the branch-and-bound search and its *)
(*                                     nested function _recurse_expand)    *)
(*                                                                         *)
(* Python dicts and sets are objects: `aus_dct0 = aus_dct` is an alias,    *)
(* `aus_dct0.copy()` is a new object.  The three objects (aus_dct,         *)
(* bord_dct, seen_keys) are always aliased or copied together, so the      *)
(* model keeps them as one heap cell and a local variable of the code is a *)
(* cell index.  Cell 1 is the root triple; its aus component is the very   *)
(* dict the caller supplied (line 146), which `atm_unsat_dct` tracks.      *)
(***************************************************************************)
EXTENDS Integers, Sequences, FiniteSets, TLC

\* ---- bounds of the model ----
MaxAtoms == 3      \* atoms of a molecule of Spec and SpecPart (any bonds)
ChainAtoms == 4    \* atoms of a molecule of SpecCalls (bonds {i, i+1} only)
WideAtoms == 4     \* atoms of a molecule of SpecWide (any bonds)
MaxBudget == 2     \* largest budget the valence model hands out
MaxSpin == 6       \* largest sum of the budgets of a molecule
MaxCalls == 3      \* calls of the enumerator in one behaviour of SpecCalls

\* ---- program constant: the order of every bond of the example graphs ----
BaseOrder == 1

\* ---- program constant: the atoms of the ring of the example C1=CC=CC=C1 ----
RingAtoms == 6

VARIABLES
    gra,            \* the molecular graph: [atoms, bonds]
    unsat,          \* the budgets the upstream valence model produces for gra
    atm_unsat_dct,  \* the caller's budget dict (one mutable object)
    map_id,         \* identity of that dict object (a new dict gets a new id)
    pi_keys_lst,    \* result of pi_system_atom_keys
    pc,             \* "start" | "idle" | "run"
    call,           \* the running call of pi_system_resonance_bond_orders;
                    \* call.copy marks the variant that always copies
    heap,           \* cells [aus, bord, seen] of the running call
    bord_dcts,      \* the result list: references (cell indices)
    spin_min,       \* the nonlocal best-spin bound
    stack,          \* frames of _recurse_expand
    set_order,      \* iteration order of list(set(...)), fixed per content
    returned        \* history of finished calls

vars == <<gra, unsat, atm_unsat_dct, map_id, pi_keys_lst, pc, call, heap,
          bord_dcts, spin_min, stack, set_order, returned>>

\* the atom keys of the molecule at hand
Atoms == gra.atoms

\* ---- arithmetic helpers ----
Min(a, b) == IF a <= b THEN a ELSE b
Max(a, b) == IF a >= b THEN a ELSE b
MinOf(S) == CHOOSE x \in S : \A y \in S : x <= y

RECURSIVE SumOver(_, _)
SumOver(f, S) ==
    IF S = {} THEN 0
    ELSE LET x == CHOOSE y \in S : TRUE IN f[x] + SumOver(f, S \ {x})

\* sum(dct.values())
SumVals(f) == SumOver(f, DOMAIN f)

\* ---- graph helpers of automol.graph.base._core / _algo / util.dict_ ----
atom_keys(g) == g.atoms

subgraph(g, keys) ==
    [atoms |-> g.atoms \cap keys,
     bonds |-> {b \in g.bonds : b \subseteq keys}]

bond_orders(g) == [b \in g.bonds |-> BaseOrder]

atoms_neighbor_atom_keys(g) ==
    [a \in g.atoms |-> {n \in g.atoms : n # a /\ {a, n} \in g.bonds}]

keys_by_value(dct) == {k \in DOMAIN dct : dct[k] # 0}

RECURSIVE Reach(_, _)
Reach(g, S) ==
    LET T == S \cup {n \in g.atoms : \E a \in S : {a, n} \in g.bonds}
    IN  IF T = S THEN S ELSE Reach(g, T)

connected_components_atom_keys(g) == {Reach(g, {a}) : a \in g.atoms}

\* the partitioner without the filter on the budget's value
pi_system_atom_keys_unfiltered(g, dct) ==
    connected_components_atom_keys(subgraph(g, DOMAIN dct))

\* ---- pi_system_atom_keys, lines 305-318 ----
pi_system_atom_keys(g, dct) ==
    connected_components_atom_keys(subgraph(g, keys_by_value(dct)))

\* ---- the running call ----
PiSy == subgraph(gra, call.pi_keys)
Top == stack[Len(stack)]
SetTop(f) == [stack EXCEPT ![Len(stack)] = f]

NoCombo == [n \in Atoms |-> 0]

\* a fresh frame of _recurse_expand(key, seen_keys, bord_dct, aus_dct, spin, call)
Frame(key, cell, spin) ==
    [key |-> key, cell |-> cell, cell0 |-> cell, spin0 |-> spin, spin |-> spin,
     nset |-> {}, max_inc |-> 0, npool |-> NoCombo, incs |-> <<>>, inc |-> 0,
     nkeys_lst |-> <<>>, nkeys |-> NoCombo, rec |-> <<>>, pc |-> "enter"]

\* list(reversed(range(max_inc+1))), line 90
Incs(max_inc) == [i \in 1 .. (max_inc + 1) |-> max_inc + 1 - i]

\* set(itertools.combinations(npool, inc)), line 100: the sub-multisets of
\* size inc of the pool, each written as neighbor -> number of its slots taken
Combos(npool, inc) ==
    {c \in [Atoms -> 0 .. Max(inc, 0)] :
        /\ \A n \in Atoms : c[n] <= npool[n]
        /\ SumOver(c, Atoms) = inc}

RECURSIVE Perms(_)
Perms(S) ==
    IF S = {} THEN {<<>>}
    ELSE UNION {{<<x>> \o p : p \in Perms(S \ {x})} : x \in S}

\* list(set(...)), line 100: the order of a set's elements is not specified,
\* but the same content iterates in the same order every time
Orders(S) ==
    IF S \in DOMAIN set_order THEN {set_order[S]} ELSE Perms(S)

Remember(S, seq) ==
    IF Cardinality(S) < 2 \/ S \in DOMAIN set_order THEN set_order
    ELSE [T \in DOMAIN set_order \cup {S} |->
             IF T = S THEN seq ELSE set_order[T]]

\* enumerate(set(nkeys)), line 137: the chosen neighbors, each once; a set of
\* small non-negative ints iterates in increasing order
RECURSIVE Ascending(_)
Ascending(S) ==
    IF S = {} THEN <<>>
    ELSE LET m == MinOf(S) IN <<m>> \o Ascending(S \ {m})

\* lines 114-120 with `aus_dct[nkey] -= 1` of line 118 left out: the budget of
\* the neighbor is not charged for the increment
ApplyComboKeyOnly(c, key, nkeys, npool) ==
    [aus |-> [a \in DOMAIN c.aus |->
                 IF a = key THEN c.aus[a] - SumOver(nkeys, Atoms)
                 ELSE c.aus[a]],
     bord |-> [b \in DOMAIN c.bord |->
                 IF key \in b
                 THEN c.bord[b] + nkeys[CHOOSE n \in b : n # key]
                 ELSE c.bord[b]],
     seen |-> c.seen \cup {n \in Atoms : npool[n] > 0}]

\* lines 114-120 applied to the value of a cell
ApplyCombo(c, key, nkeys, npool) ==
    [aus |-> [a \in DOMAIN c.aus |->
                 IF a = key THEN c.aus[a] - SumOver(nkeys, Atoms)
                 ELSE c.aus[a] - nkeys[a]],
     bord |-> [b \in DOMAIN c.bord |->
                 IF key \in b
                 THEN c.bord[b] + nkeys[CHOOSE n \in b : n # key]
                 ELSE c.bord[b]],
     seen |-> c.seen \cup {n \in Atoms : npool[n] > 0}]

\* the membership test left out: every complete assignment is appended
NotRecordedUnchecked(h, lst, bord) == TRUE

\* `bord_dct not in bord_dcts`, line 127: dicts compare by content
NotRecorded(h, lst, bord) ==
    \A i \in 1 .. Len(lst) : h[lst[i]].bord # bord

\* ---- the caller ----
\* the working state before the first call
Fresh ==
    /\ atm_unsat_dct = unsat
    /\ map_id = 1
    /\ pi_keys_lst = {}
    /\ pc = "start"
    /\ call = [pi_keys |-> {}, aus0 |-> <<>>, map_id |-> 0, copy |-> FALSE]
    /\ heap = <<>>
    /\ bord_dcts = <<>>
    /\ spin_min = 0
    /\ stack = <<>>
    /\ set_order = <<>>
    /\ returned = <<>>

\* a molecule of MaxAtoms atoms with any bonds, every atom with a budget,
\* the budgets summing to MaxSpin at most
Init ==
    /\ gra \in {[atoms |-> 0 .. (MaxAtoms - 1), bonds |-> B] :
                  B \in SUBSET {b \in SUBSET (0 .. (MaxAtoms - 1)) :
                                  Cardinality(b) = 2}}
    /\ unsat \in [gra.atoms -> 0 .. MaxBudget]
    /\ SumVals(unsat) <= MaxSpin
    /\ Fresh

\* a linear molecule of ChainAtoms atoms, every atom with a budget
InitCalls ==
    /\ gra \in {[atoms |-> 0 .. (ChainAtoms - 1), bonds |-> B] :
                  B \in SUBSET {{i, i + 1} : i \in 0 .. (ChainAtoms - 2)}}
    /\ unsat \in [gra.atoms -> 0 .. MaxBudget]
    /\ SumVals(unsat) <= MaxSpin
    /\ Fresh

\* a molecule of MaxAtoms atoms whose budget map may omit atoms
InitPart ==
    /\ gra \in {[atoms |-> 0 .. (MaxAtoms - 1), bonds |-> B] :
                  B \in SUBSET {b \in SUBSET (0 .. (MaxAtoms - 1)) :
                                  Cardinality(b) = 2}}
    /\ \E D \in SUBSET gra.atoms : unsat \in [D -> 0 .. MaxBudget]
    /\ SumVals(unsat) <= MaxSpin
    /\ Fresh

\* a molecule of WideAtoms atoms with any bonds, every atom with a budget
InitWide ==
    /\ gra \in {[atoms |-> 0 .. (WideAtoms - 1), bonds |-> B] :
                  B \in SUBSET {b \in SUBSET (0 .. (WideAtoms - 1)) :
                                  Cardinality(b) = 2}}
    /\ unsat \in [gra.atoms -> 0 .. MaxBudget]
    /\ SumVals(unsat) <= MaxSpin
    /\ Fresh

\* the ring of RingAtoms atoms, bonds {i, i+1 mod RingAtoms}, every atom with
\* a budget
InitRing ==
    /\ gra = [atoms |-> 0 .. (RingAtoms - 1),
              bonds |-> {{i, (i + 1) % RingAtoms} : i \in 0 .. (RingAtoms - 1)}]
    /\ unsat \in [gra.atoms -> 0 .. MaxBudget]
    /\ SumVals(unsat) <= MaxSpin
    /\ Fresh

\* function, line 24: pi_keys_lst = pi_system_atom_keys(gra, atm_unsat_dct)
Partition ==
    /\ pc = "start"
    /\ pi_keys_lst' = pi_system_atom_keys(gra, atm_unsat_dct)
    /\ pc' = "idle"
    /\ UNCHANGED <<gra, unsat, atm_unsat_dct, map_id, call, heap, bord_dcts,
                   spin_min, stack, set_order, returned>>

\* function, line 23: the valence model builds a new budget dict
NewMap ==
    /\ pc = "idle"
    /\ Len(returned) < MaxCalls
    /\ \E i \in 1 .. Len(returned) : returned[i].map_id = map_id
    /\ atm_unsat_dct' = unsat
    /\ map_id' = map_id + 1
    /\ pc' = "start"
    /\ UNCHANGED <<gra, unsat, pi_keys_lst, call, heap, bord_dcts, spin_min,
                   stack, set_order, returned>>

\* pi_system_resonance_bond_orders, lines 55-65 and 143-147
Call(pi_keys) ==
    /\ pc = "idle"
    /\ LET pi_sy == subgraph(gra, pi_keys)
           start_key == MinOf(atom_keys(pi_sy))
       IN  /\ heap' = <<[aus |-> atm_unsat_dct,
                         bord |-> bond_orders(pi_sy),
                         seen |-> {start_key}]>>
           /\ stack' = <<Frame(start_key, 1, 0)>>
    /\ bord_dcts' = <<>>
    /\ spin_min' = SumVals(atm_unsat_dct)
    /\ call' = [pi_keys |-> pi_keys, aus0 |-> atm_unsat_dct, map_id |-> map_id,
                copy |-> FALSE]
    /\ pc' = "run"
    /\ UNCHANGED <<gra, unsat, atm_unsat_dct, map_id, pi_keys_lst, set_order,
                   returned>>

\* the same call once more, by the variant of the search in which every
\* combination gets its own copy (lines 109-111 for the last one too), on the
\* budgets the first call started from
CallCopy ==
    /\ pc = "idle"
    /\ Len(returned) = 1
    /\ LET r == returned[1]
           pi_sy == subgraph(gra, r.pi_keys)
           start_key == MinOf(atom_keys(pi_sy))
       IN  /\ atm_unsat_dct' = r.aus0
           /\ heap' = <<[aus |-> r.aus0,
                         bord |-> bond_orders(pi_sy),
                         seen |-> {start_key}]>>
           /\ stack' = <<Frame(start_key, 1, 0)>>
           /\ spin_min' = SumVals(r.aus0)
           /\ call' = [pi_keys |-> r.pi_keys, aus0 |-> r.aus0,
                       map_id |-> map_id, copy |-> TRUE]
    /\ bord_dcts' = <<>>
    /\ pc' = "run"
    /\ UNCHANGED <<gra, unsat, map_id, pi_keys_lst, set_order, returned>>

\* ---- _recurse_expand ----
\* lines 77-90
Enter ==
    /\ pc = "run" /\ Top.pc = "enter"
    /\ LET f == Top
           c == heap[f.cell]
           nset == atoms_neighbor_atom_keys(PiSy)[f.key] \ c.seen
           npool == [n \in Atoms |->
                        IF n \in nset THEN Max(0, c.aus[n]) ELSE 0]
           max_inc == c.aus[f.key]
           some == \E n \in Atoms : npool[n] > 0
       IN  /\ heap' = [heap EXCEPT ![f.cell].seen = c.seen \cup nset]
           /\ stack' = SetTop([f EXCEPT !.nset = nset,
                                        !.npool = npool,
                                        !.max_inc = max_inc,
                                        !.incs = IF some THEN Incs(max_inc)
                                                 ELSE <<>>,
                                        !.pc = IF some THEN "inc" ELSE "ret"])
    /\ UNCHANGED <<gra, unsat, atm_unsat_dct, map_id, pi_keys_lst, pc, call,
                   bord_dcts, spin_min, set_order, returned>>

\* lines 92-99, the bound is exceeded: nothing is done for this inc
IncPruned ==
    /\ pc = "run" /\ Top.pc = "inc" /\ Top.incs # <<>>
    /\ LET f == Top
           inc == Head(f.incs)
           spin == f.spin0 + (f.max_inc - inc)
       IN  /\ ~(spin <= spin_min)
           /\ stack' = SetTop([f EXCEPT !.inc = inc, !.spin = spin,
                                        !.incs = Tail(f.incs)])
    /\ UNCHANGED <<gra, unsat, atm_unsat_dct, map_id, pi_keys_lst, pc, call,
                   heap, bord_dcts, spin_min, set_order, returned>>

\* lines 92-100, within the bound: the combinations of this inc are listed
IncExpand ==
    /\ pc = "run" /\ Top.pc = "inc" /\ Top.incs # <<>>
    /\ LET f == Top
           inc == Head(f.incs)
           spin == f.spin0 + (f.max_inc - inc)
           S == Combos(f.npool, inc)
       IN  /\ spin <= spin_min
           /\ \E seq \in Orders(S) :
                /\ stack' = SetTop([f EXCEPT !.inc = inc, !.spin = spin,
                                             !.incs = Tail(f.incs),
                                             !.nkeys_lst = seq,
                                             !.pc = "combo"])
                /\ set_order' = Remember(S, seq)
    /\ UNCHANGED <<gra, unsat, atm_unsat_dct, map_id, pi_keys_lst, pc, call,
                   heap, bord_dcts, spin_min, returned>>

\* line 92, the loop over incs is over: the function returns
IncDone ==
    /\ pc = "run" /\ Top.pc = "inc" /\ Top.incs = <<>>
    /\ stack' = SetTop([Top EXCEPT !.pc = "ret"])
    /\ UNCHANGED <<gra, unsat, atm_unsat_dct, map_id, pi_keys_lst, pc, call,
                   heap, bord_dcts, spin_min, set_order, returned>>

\* line 103: the last combination of the list works on the storage of the
\* call itself (the variant of the search that call.copy marks never does)
InPlace(f) == Len(f.nkeys_lst) = 1 /\ ~call.copy

\* lines 102-120: the cell the combination works on, and the heap after it
ComboCell(f) == IF InPlace(f) THEN f.cell0 ELSE Len(heap) + 1
ComboValue(f) ==
    ApplyCombo(heap[f.cell0], f.key, Head(f.nkeys_lst), f.npool)
ComboHeap(f) ==
    IF InPlace(f)
    THEN [heap EXCEPT ![f.cell0] = ComboValue(f)]
    ELSE Append(heap, ComboValue(f))

\* lines 102-133, every atom is seen: the assignment is recorded
ComboRecord ==
    /\ pc = "run" /\ Top.pc = "combo" /\ Top.nkeys_lst # <<>>
    /\ LET f == Top
           c == ComboCell(f)
           v == ComboValue(f)
           h == ComboHeap(f)
           new == NotRecorded(h, bord_dcts, v.bord)
       IN  /\ v.seen = atom_keys(PiSy)
           /\ heap' = h
           /\ atm_unsat_dct' = h[1].aus
           /\ bord_dcts' = IF new THEN Append(bord_dcts, c) ELSE bord_dcts
           /\ spin_min' = IF new THEN Min(spin_min, SumVals(heap'[c].aus))
                          ELSE spin_min
           /\ stack' = SetTop([f EXCEPT !.cell = c,
                                        !.nkeys = Head(f.nkeys_lst),
                                        !.nkeys_lst = Tail(f.nkeys_lst),
                                        !.spin = IF new
                                                 THEN SumVals(heap'[c].aus)
                                                 ELSE f.spin])
    /\ UNCHANGED <<gra, unsat, map_id, pi_keys_lst, pc, call, set_order,
                   returned>>

\* lines 102-126 and 135-137, some atom is not seen: recursion is prepared
ComboDescend ==
    /\ pc = "run" /\ Top.pc = "combo" /\ Top.nkeys_lst # <<>>
    /\ LET f == Top
           c == ComboCell(f)
           v == ComboValue(f)
           h == ComboHeap(f)
           nkeys == Head(f.nkeys_lst)
       IN  /\ v.seen # atom_keys(PiSy)
           /\ heap' = h
           /\ atm_unsat_dct' = h[1].aus
           /\ stack' = SetTop([f EXCEPT !.cell = c,
                                        !.nkeys = nkeys,
                                        !.nkeys_lst = Tail(f.nkeys_lst),
                                        !.rec = Ascending({n \in Atoms :
                                                            nkeys[n] > 0}),
                                        !.pc = "rec"])
    /\ UNCHANGED <<gra, unsat, map_id, pi_keys_lst, pc, call, bord_dcts,
                   spin_min, set_order, returned>>

\* line 102, the loop over the combinations is over
ComboDone ==
    /\ pc = "run" /\ Top.pc = "combo" /\ Top.nkeys_lst = <<>>
    /\ stack' = SetTop([Top EXCEPT !.pc = "inc"])
    /\ UNCHANGED <<gra, unsat, atm_unsat_dct, map_id, pi_keys_lst, pc, call,
                   heap, bord_dcts, spin_min, set_order, returned>>

\* lines 137-139 with `key` passed on in place of `nkey`: the recursive call
\* works on the atom its caller works on
RecurseOnKey ==
    /\ pc = "run" /\ Top.pc = "rec" /\ Top.rec # <<>>
    /\ LET f == Top
       IN  stack' = Append(SetTop([f EXCEPT !.rec = Tail(f.rec)]),
                           Frame(f.key, f.cell, f.spin))
    /\ UNCHANGED <<gra, unsat, atm_unsat_dct, map_id, pi_keys_lst, pc, call,
                   heap, bord_dcts, spin_min, set_order, returned>>

\* lines 137-139: one recursive call
Recurse ==
    /\ pc = "run" /\ Top.pc = "rec" /\ Top.rec # <<>>
    /\ LET f == Top
       IN  stack' = Append(SetTop([f EXCEPT !.rec = Tail(f.rec)]),
                           Frame(Head(f.rec), f.cell, f.spin))
    /\ UNCHANGED <<gra, unsat, atm_unsat_dct, map_id, pi_keys_lst, pc, call,
                   heap, bord_dcts, spin_min, set_order, returned>>

\* line 137, the loop over the chosen neighbors is over
RecDone ==
    /\ pc = "run" /\ Top.pc = "rec" /\ Top.rec = <<>>
    /\ stack' = SetTop([Top EXCEPT !.pc = "combo"])
    /\ UNCHANGED <<gra, unsat, atm_unsat_dct, map_id, pi_keys_lst, pc, call,
                   heap, bord_dcts, spin_min, set_order, returned>>

\* a nested _recurse_expand returns to its caller
Ret ==
    /\ pc = "run" /\ Top.pc = "ret" /\ Len(stack) > 1
    /\ stack' = SubSeq(stack, 1, Len(stack) - 1)
    /\ UNCHANGED <<gra, unsat, atm_unsat_dct, map_id, pi_keys_lst, pc, call,
                   heap, bord_dcts, spin_min, set_order, returned>>

\* lines 147-149: the root _recurse_expand returns, `return bord_dcts`
Return ==
    /\ pc = "run" /\ Top.pc = "ret" /\ Len(stack) = 1
    /\ returned' = Append(returned,
          [pi_keys |-> call.pi_keys,
           aus0 |-> call.aus0,
           map_id |-> call.map_id,
           result |-> [i \in 1 .. Len(bord_dcts) |-> heap[bord_dcts[i]].bord],
           spin_min |-> spin_min])
    /\ pc' = "idle"
    /\ call' = [pi_keys |-> {}, aus0 |-> <<>>, map_id |-> 0,
                copy |-> FALSE]
    /\ heap' = <<>>
    /\ bord_dcts' = <<>>
    /\ spin_min' = 0
    /\ stack' = <<>>
    /\ UNCHANGED <<gra, unsat, atm_unsat_dct, map_id, pi_keys_lst, set_order>>

\* ---- one call of the enumerator on one pi-system of a molecule ----
Search ==
    \/ Enter
    \/ IncPruned
    \/ IncExpand
    \/ IncDone
    \/ ComboRecord
    \/ ComboDescend
    \/ ComboDone
    \/ Recurse
    \/ RecDone
    \/ Ret
    \/ Return

FirstCall == \E pi_keys \in pi_keys_lst : returned = <<>> /\ Call(pi_keys)

Next ==
    \/ Partition
    \/ FirstCall
    \/ Search

Spec == Init /\ [][Next]_vars

\* ---- several calls, on one budget dict or on a new one ----
AnyCall ==
    \E pi_keys \in pi_keys_lst : Len(returned) < MaxCalls /\ Call(pi_keys)

NextCalls ==
    \/ Partition
    \/ NewMap
    \/ AnyCall
    \/ Search

SpecCalls == InitCalls /\ [][NextCalls]_vars

\* ---- the partitioner alone, on any budget map ----
NextPart == Partition

SpecPart == InitPart /\ [][NextPart]_vars

\* ---- one call of the search as written, then the same call by the variant
\* that copies for every combination ----
NextCopy ==
    \/ Partition
    \/ FirstCall
    \/ CallCopy
    \/ Search

SpecCopy == Init /\ [][NextCopy]_vars

\* ---- one call on a pi-system of a molecule of WideAtoms atoms ----
SpecWide == InitWide /\ [][Next]_vars

\* ---- one call on a pi-system of the ring ----
SpecRing == InitRing /\ [][Next]_vars

\* ---- the same, run to its end: the search is synchronous code of a single
\* thread, a call that has a next step takes it ----
SpecLive == InitRing /\ [][Next]_vars /\ WF_vars(Search)

\* ======================================================================
\* Properties
\* ======================================================================

\* ---- vocabulary of the properties ----
Calls == 1 .. Len(returned)
Results(r) == {r.result[i] : i \in 1 .. Len(r.result)}

\* the bonds of the graph inside a set of atoms
BondsIn(S) == {b \in gra.bonds : b \subseteq S}

\* S cannot be split into two parts with no bond between them
ConnectedSet(S) ==
    \A A \in SUBSET S :
        (A # {} /\ A # S) =>
            \E b \in BondsIn(S) : b \cap A # {} /\ b \cap (S \ A) # {}

\* sum over the bonds at atom a of (order - baseline)
IncidentInc(bord, a) ==
    SumOver([b \in DOMAIN bord |->
                IF a \in b THEN bord[b] - BaseOrder ELSE 0], DOMAIN bord)

\* spin of an assignment: sum over the pi-system's atoms of
\* (budget at the start of the call - increments on its bonds)
RealizedSpin(r, bord) ==
    SumOver([a \in r.pi_keys |-> r.aus0[a] - IncidentInc(bord, a)], r.pi_keys)

\* a valid pi-system: non-empty, connected, every budget >= 1 ...
ValidPiSystem(r) ==
    /\ r.pi_keys # {}
    /\ ConnectedSet(r.pi_keys)
    /\ \A a \in r.pi_keys : r.aus0[a] >= 1

\* ... handed over with a budget map that carries no budget of another atom
\* (the enumerator's input of spec 4.2: the map restricted to the pi-system)
ValidInput(r) ==
    /\ ValidPiSystem(r)
    /\ \A a \in DOMAIN r.aus0 : a \notin r.pi_keys => r.aus0[a] = 0

\* exhaustive reference: every budget-respecting assignment of increments
Assignments(r) ==
    {bord \in [BondsIn(r.pi_keys) -> BaseOrder .. (BaseOrder + MaxBudget)] :
        \A a \in r.pi_keys : IncidentInc(bord, a) <= r.aus0[a]}

MinimumSpin(r) ==
    MinOf({RealizedSpin(r, bord) : bord \in Assignments(r)})

MinimumSpinAssignments(r) ==
    {bord \in Assignments(r) : RealizedSpin(r, bord) = MinimumSpin(r)}

\* C1: budget conservation -- in every assignment returned for a valid
\* pi-system, the increments on the bonds at an atom sum to at most the
\* atom's original budget.
C1_BudgetConservation ==
    \A k \in Calls : ValidInput(returned[k]) =>
        \A bord \in Results(returned[k]) : \A a \in returned[k].pi_keys :
            IncidentInc(bord, a) <= returned[k].aus0[a]

\* C2: minimality -- every assignment returned for a valid pi-system has the
\* minimum spin of the exhaustive reference.
C2_Minimality ==
    \A k \in Calls : ValidInput(returned[k]) =>
        \A bord \in Results(returned[k]) :
            RealizedSpin(returned[k], bord) = MinimumSpin(returned[k])

\* C3: all ties are retained -- the returned set is the full set of
\* minimum-spin assignments of the exhaustive reference.
C3_TiesRetained ==
    \A k \in Calls : ValidInput(returned[k]) =>
        Results(returned[k]) = MinimumSpinAssignments(returned[k])

\* C4: at return every assignment of the list has the same realized spin,
\* and it is the final value of the best-spin bound spin_min.
C4_UniformSpin ==
    \A k \in Calls : ValidInput(returned[k]) =>
        \A bord \in Results(returned[k]) :
            RealizedSpin(returned[k], bord) = returned[k].spin_min

\* C5: uniqueness -- at every point of the search and at return, no two
\* entries of the result list are equal as bond-key-to-order maps.
C5_NoDuplicates ==
    /\ \A i, j \in 1 .. Len(bord_dcts) :
          i # j => heap[bord_dcts[i]].bord # heap[bord_dcts[j]].bord
    /\ \A k \in Calls : \A i, j \in 1 .. Len(returned[k].result) :
          i # j => returned[k].result[i] # returned[k].result[j]

\* C5 witness: two assignments are recorded and the combination about to be
\* applied completes a map that is already in the list (the test of line 127
\* is what keeps it out).
C5_Witness ==
    /\ pc = "run" /\ Top.pc = "combo" /\ Top.nkeys_lst # <<>>
    /\ Len(bord_dcts) >= 2
    /\ ComboValue(Top).seen = atom_keys(PiSy)
    /\ ~NotRecorded(ComboHeap(Top), bord_dcts, ComboValue(Top).bord)

\* C6: non-emptiness -- a call on a valid non-empty pi-system returns at
\* least one assignment.
C6_NonEmpty ==
    \A k \in Calls : ValidInput(returned[k]) => Len(returned[k].result) >= 1

\* C7: determinism -- two successive calls with the same graph, the same
\* pi_keys and the same budget dict return the same set of assignments.
C7_Determinism ==
    \A k \in Calls :
        (/\ (k + 1) \in Calls
         /\ returned[k].pi_keys = returned[k + 1].pi_keys
         /\ returned[k].map_id = returned[k + 1].map_id)
            => Results(returned[k]) = Results(returned[k + 1])

\* C8: the partitioner returns exactly the connected components of the
\* subgraph induced on the atoms with a nonzero budget in the map: each set
\* is non-empty and connected, holds only atoms of the map with a nonzero
\* budget, no bond joins two sets, every nonzero-budget atom is in exactly
\* one set; an atom of the graph that the map omits is in no set.
C8_PartitionIsComponents ==
    pc = "idle" =>
        /\ \A S \in pi_keys_lst :
              /\ S # {} /\ S \subseteq gra.atoms
              /\ ConnectedSet(S)
              /\ \A a \in S : a \in DOMAIN unsat /\ unsat[a] # 0
        /\ \A S, T \in pi_keys_lst :
              S # T => /\ S \cap T = {}
                       /\ ~\E b \in gra.bonds : b \cap S # {} /\ b \cap T # {}
        /\ \A a \in gra.atoms :
              (a \in DOMAIN unsat /\ unsat[a] # 0)
                  => \E S \in pi_keys_lst : a \in S
        /\ \A a \in gra.atoms :
              a \notin DOMAIN unsat => \A S \in pi_keys_lst : a \notin S

\* C8 witness: the partition is computed for a molecule in which a pi-system
\* of two or more atoms is bonded to an atom that the map omits.
C8_Witness ==
    /\ pc = "idle"
    /\ \E S \in pi_keys_lst :
          /\ Cardinality(S) >= 2
          /\ \E a \in gra.atoms \ DOMAIN unsat :
                \E b \in gra.bonds : a \in b /\ b \cap S # {}

\* C9: independence -- two calls on the same pi-system whose own atoms have
\* the same budgets at the start of the call return the same set, whatever
\* the budgets of the other atoms and whichever other pi-systems were
\* enumerated before on the same budget dict.
C9_Independence ==
    \A j, k \in Calls :
        (/\ returned[j].pi_keys = returned[k].pi_keys
         /\ ValidPiSystem(returned[j])
         /\ \A a \in returned[j].pi_keys :
               returned[j].aus0[a] = returned[k].aus0[a])
            => Results(returned[j]) = Results(returned[k])

\* C10: a singleton pi-system (one atom of budget b >= 1, no bond inside)
\* returns exactly one assignment, with no increment and realized spin b.
C10_Singleton ==
    \A k \in Calls :
        (ValidInput(returned[k]) /\ Cardinality(returned[k].pi_keys) = 1) =>
            /\ Len(returned[k].result) = 1
            /\ \A bord \in Results(returned[k]) :
                  /\ \A b \in DOMAIN bord : bord[b] = BaseOrder
                  /\ \A a \in returned[k].pi_keys :
                        RealizedSpin(returned[k], bord) = returned[k].aus0[a]

\* ---- vocabulary of the scenarios ----
\* the call r ran on the whole molecule, whose bonds are exactly B
OnMolecule(r, B) == gra.bonds = B /\ r.pi_keys = gra.atoms

\* the map of the bonds B in which exactly the bonds of I carry one increment
OneIncrementOn(B, I) ==
    [b \in B |-> IF b \in I THEN BaseOrder + 1 ELSE BaseOrder]

\* C11: scenario B -- for the linear pi-system 0-1-2 with budgets 2, 1, 2 and
\* bonds {0,1}, {1,2} at baseline order, the call returns exactly two
\* assignments, one increment on {0,1} or one increment on {1,2}, each with
\* realized spin 1.
C11_LinearThree ==
    \A k \in Calls :
        (/\ OnMolecule(returned[k], {{0, 1}, {1, 2}})
         /\ returned[k].pi_keys = {0, 1, 2}
         /\ returned[k].aus0 = [a \in {0, 1, 2} |-> IF a = 1 THEN 1 ELSE 2])
            => /\ Len(returned[k].result) = 2
               /\ Results(returned[k]) =
                     {OneIncrementOn({{0, 1}, {1, 2}}, {{0, 1}}),
                      OneIncrementOn({{0, 1}, {1, 2}}, {{1, 2}})}
               /\ \A bord \in Results(returned[k]) :
                     RealizedSpin(returned[k], bord) = 1

\* C12: scenario C -- for the ring of six atoms with every budget 1, the call
\* returns exactly two assignments, the two alternating patterns of three
\* incremented bonds, each with realized spin 0.
C12_SixRing ==
    \A k \in Calls :
        (/\ OnMolecule(returned[k],
                       {{i, (i + 1) % RingAtoms} : i \in 0 .. (RingAtoms - 1)})
         /\ \A a \in returned[k].pi_keys : returned[k].aus0[a] = 1)
            => /\ Len(returned[k].result) = 2
               /\ Results(returned[k]) =
                     {OneIncrementOn(gra.bonds,
                         {{i, (i + 1) % RingAtoms} :
                             i \in {j \in 0 .. (RingAtoms - 1) : j % 2 = p}}) :
                      p \in {0, 1}}
               /\ \A bord \in Results(returned[k]) :
                     RealizedSpin(returned[k], bord) = 0

\* the frames of the running call are on pairwise different atoms of the
\* pi-system, so there are at most as many as it has atoms
C13_DepthBound ==
    (pc = "run" /\ ValidPiSystem(call)) =>
        /\ Len(stack) <= Cardinality(call.pi_keys)
        /\ \A i \in 1 .. Len(stack) : stack[i].key \in call.pi_keys
        /\ \A i, j \in 1 .. Len(stack) : i # j => stack[i].key # stack[j].key

\* C13: for every valid pi-system the search terminates (a running call
\* returns), and the depth of nested _recurse_expand calls never exceeds the
\* number of atoms of the pi-system: no recursive call is made on an atom
\* that a call on the stack is already working on.
C13_TerminatesWithinDepth ==
    /\ [](C13_DepthBound)
    /\ (pc = "run" /\ ValidPiSystem(call)) ~> (pc = "idle")

\* C13 witness: on a valid pi-system of four atoms the recursion is three
\* calls deep and the fourth atom is not visited yet.
C13_Witness ==
    /\ pc = "run" /\ ValidPiSystem(call)
    /\ Cardinality(call.pi_keys) = 4
    /\ Len(stack) = 3
    /\ heap[Top.cell].seen # call.pi_keys

\* C14: a call leaves its input unchanged -- when the call has returned, the
\* caller's budget dict holds for every atom the budget it held when the call
\* started.
C14_InputUnchanged ==
    (pc = "idle" /\ returned # <<>>) =>
        atm_unsat_dct = returned[Len(returned)].aus0

\* C15: reusing the storage of the call for the last combination is a pure
\* optimization -- the search as written returns the same set of assignments
\* as the variant that gives every combination its own copy of the state the
\* call had on entry, for every valid pi-system.
C15_ReuseIsOptimization ==
    (Len(returned) = 2 /\ ValidInput(returned[1])) =>
        Results(returned[1]) = Results(returned[2])

\* C16: a complete assignment is appended to the result list only if its
\* realized spin, the sum of the remaining budgets, is at most the best-spin
\* bound of that moment: no step records an assignment whose realized spin
\* exceeds the bound.
C16_RecordedWithinBound ==
    [][(/\ pc = "run"
        /\ ValidInput(call)
        /\ Len(bord_dcts') = Len(bord_dcts) + 1)
          => SumVals(heap'[bord_dcts'[Len(bord_dcts')]].aus) <= spin_min]_vars

\* C17: when a combination has been applied at an atom and some atom of the
\* pi-system is still unvisited, the recursive calls made before the next
\* combination are one for every neighbor that was newly marked visited,
\* whether or not an increment was placed on its bond.
C17_RecurseIntoNewNeighbors ==
    [][(/\ pc = "run"
        /\ ValidInput(call)
        /\ Top.pc = "combo"
        /\ Len(stack') = Len(stack)
        /\ Top'.pc = "rec")
          => {Top'.rec[i] : i \in 1 .. Len(Top'.rec)} = Top.nset]_vars

\* the cells of the running call that a frame or the result list refers to
CellsInUse ==
    {stack[i].cell : i \in 1 .. Len(stack)}
        \cup {stack[i].cell0 : i \in 1 .. Len(stack)}
        \cup {bord_dcts[i] : i \in 1 .. Len(bord_dcts)}

\* C18: in every state of the search on a valid pi-system, for every pair of
\* assignment map and remaining-budget map in use and for every atom, the
\* increments on the atom's bonds sum to at most its original budget, and its
\* remaining budget is not negative.
C18_BudgetNeverExceeded ==
    (pc = "run" /\ ValidInput(call)) =>
        \A i \in CellsInUse : \A a \in call.pi_keys :
            /\ IncidentInc(heap[i].bord, a) <= call.aus0[a]
            /\ heap[i].aus[a] >= 0

\* C19: once an assignment is in the result list, no later step of the search
\* changes a bond order of it, so every entry of the returned list is the map
\* it was when it was recorded.
C19_RecordedIsFrozen ==
    [][(pc = "run" /\ pc' = "run" /\ ValidInput(call))
          => \A i \in 1 .. Len(bord_dcts) :
                heap'[bord_dcts[i]].bord = heap[bord_dcts[i]].bord]_vars

\* C20: in every state of the search, for every pair of assignment map and
\* remaining-budget map the call has built and for every atom of the
\* pi-system, the remaining budget plus the increments on the atom's bonds
\* (order minus the order at the start of the call) is the atom's budget at
\* the start of the call.
C20_IncrementsMatchDecrements ==
    pc = "run" =>
        \A i \in 1 .. Len(heap) : \A a \in call.pi_keys :
            heap[i].aus[a] + IncidentInc(heap[i].bord, a) = call.aus0[a]

\* C20 witness: a pair in use has a copy beside it, carries increments at two
\* bonds or more of one atom, and that atom's remaining budget is negative.
C20_Witness ==
    /\ pc = "run"
    /\ Len(heap) >= 2
    /\ \E i \in CellsInUse : \E a \in call.pi_keys :
          /\ heap[i].aus[a] < 0
          /\ Cardinality({b \in DOMAIN heap[i].bord :
                            a \in b /\ heap[i].bord[b] > BaseOrder}) >= 2

====
